---- MODULE Spec2Model ----
(***************************************************************************)
(* Model of scripts/db-heal-test.py: the crash-recovery harness that       *)
(* launches a sync process (aida-vm-sdb), tails its log                    *)
(* (check_aida_log), kills it after the configured window, recovers the    *)
(* database with the Carmen tool (info, reset, export, import-live-db) and *)
(* resumes the sync, for a configured number of iterations.                *)
(*                                                                         *)
(* The harness is one sequential script; pc is its position.  The sync     *)
(* process, the database tool and the clock are the environment.           *)
(***************************************************************************)
EXTENDS Integers, Sequences, FiniteSets, TLC

\* ---------------------------------------------------------------- bounds
MaxIter == 3          \* largest --iter value explored
MaxWindow == 1        \* largest --window value explored (clock ticks)
MaxTime == 3          \* the clock stops advancing here
MaxLines == 2         \* log lines one sync process writes at most
MaxPending == 1       \* written log lines not yet read by the monitor
MaxCheckpoints == 1   \* checkpoints one sync process commits at most

\* ------------------------------------------------------- program constants
checkpoint_granularity == 10   \* --cp-granularity default
KilledCode == -15              \* returncode of a child ended by terminate()

VARIABLES
    \* --- the script's own state
    pc,                    \* position of the script
    number_of_iterations,  \* args.iter
    window,                \* args.window
    i,                     \* loop variable of the main loop (0 before it)
    has_failed,
    latest_checkpoint,
    first_block,
    working_db,            \* 0 while unassigned
    last_working_db,
    start,                 \* local of check_aida_log
    exit_status,           \* -1 while the script runs
    \* --- the sync child process (the global `process`)
    procState,             \* "none" | "running" | "exited"
    procCode,              \* exit code once exited
    termRequested,         \* terminate() was delivered to the running child
    procLines,             \* lines the child has written so far
    procDb,                \* the WorkingDatabase the child created, 0 if none yet
    procCps,               \* checkpoints the child has committed so far
    procArgs,              \* [first |-> start block, src |-> --db-src or 0]
    log,                   \* lines of aida.log the monitor has not read yet
    \* --- the database tool child
    tool,                  \* "none" | "info" | "reset" | "export" | "import"
    \* --- the file system under working_dir
    rootExists,
    dbOrder,               \* WorkingDatabase directories, oldest mtime first
    archiveCp,             \* archiveCp[d]: latest checkpoint of d's archive
    liveStore,             \* liveStore[d]: state of d's live store
    \* --- time.time()
    now,
    \* --- history of the run, read by the properties only
    fatalVerdict,          \* check_aida_log has returned True
    recoveryFailed,        \* reset, export, rmtree(live) or import failed
    recSteps,              \* recovery steps started so far
    launches,              \* sync processes launched so far
    termCount,             \* terminate() calls on the current process
    termOnExited,          \* a terminate() call found the process exited
    termAt,                \* clock value at the terminate() call, 0 if none
    firstTrackAt,          \* clock value at the first progress line, 0 if none
    verdict,               \* "none" | "timeout" | "fatal" for the current process
    infoCalls,             \* info invocations in the current iteration
    resetCalls,            \* reset invocations in the current iteration
    lastInfo,              \* value get_latest_checkpoint_from_info returned
    lastReset,             \* [cp, rc, iter, db] of the latest reset
    lastExport,            \* [cp, rc, iter] of the latest export
    steps,                 \* steps of the current recovery that succeeded
    recovered,             \* checkpoints of the successful resets, in order
    overlap                \* a child was started while the sync child ran

vars == <<pc, number_of_iterations, window, i, has_failed, latest_checkpoint,
          first_block, working_db, last_working_db, start, exit_status,
          procState, procCode, termRequested, procLines, procDb, procCps,
          procArgs, log, tool, rootExists, dbOrder, archiveCp, liveStore,
          now,
          fatalVerdict, recoveryFailed, recSteps, launches, termCount,
          termOnExited, termAt, firstTrackAt, verdict, infoCalls, resetCalls,
          lastInfo, lastReset, lastExport, steps, recovered, overlap>>

scriptVars == <<pc, i, has_failed, latest_checkpoint, first_block, working_db,
                last_working_db, start, exit_status>>
procVars == <<procState, procCode, termRequested, procLines, procDb, procCps,
              procArgs>>
fsVars == <<rootExists, dbOrder, archiveCp, liveStore>>
monitorHist == <<fatalVerdict, termCount, termOnExited, termAt, firstTrackAt,
                 verdict>>
recoveryHist == <<recoveryFailed, recSteps, infoCalls, resetCalls, lastInfo,
                  lastReset, lastExport, steps, recovered>>
argVars == <<number_of_iterations, window>>

\* A log line, by what the monitor looks for in it: "Track: block" and the
\* failure tokens "exit status" / "fail".
Lines == [track : BOOLEAN, fail : BOOLEAN]

\* Exit codes of a sync process that ends on its own.
ExitCodes == {0, 1, 2}
\* Exit codes of a database-tool run.
ToolCodes == {0, 1}

NoReset == [cp |-> -1, rc |-> -1, iter |-> 0, db |-> 0]
NoExport == [cp |-> -1, rc |-> -1, iter |-> 0]

\* ------------------------------------------------------------ pure helpers

\* has_program_failed(code, log): True exactly for a non-zero return code.
has_program_failed(code) == code # 0

\* find_working_db(p): the directory under p with the greatest mtime.
find_working_db(order) == order[Len(order)]

\* A write inside directory d gives it the newest mtime.
Touch(order, d) == Append(SelectSeq(order, LAMBDA x : x # d), d)

\* Variant: the elapsed-time test without the `start > 0` part.
window_elapsed_any(st, t, w) == t - st >= w

\* check_aida_log line 124: start > 0 and time.time() - start >= sleep_time.
window_elapsed(st, t, w) == st > 0 /\ t - st >= w

\* process.poll() == code: the child has exited with that return code.
poll_is(code) == procState = "exited" /\ procCode = code

\* The checkpoints an archive at latest checkpoint c can be reset to.
Committed(c) == {k \in 0..c : k % checkpoint_granularity = 0}

\* ------------------------------------------------------------------ Init
Init ==
    /\ pc = "launch"
    /\ number_of_iterations \in 0..MaxIter
    /\ window \in 0..MaxWindow
    /\ i = 0
    /\ has_failed = FALSE
    /\ latest_checkpoint = checkpoint_granularity
    /\ first_block = 0
    /\ working_db = 0
    /\ last_working_db = 0
    /\ start = 0
    /\ exit_status = -1
    /\ procState = "none"
    /\ procCode = 0
    /\ termRequested = FALSE
    /\ procLines = 0
    /\ procDb = 0
    /\ procCps = 0
    /\ procArgs = [first |-> 0, src |-> 0]
    /\ log = <<>>
    /\ tool = "none"
    /\ rootExists = TRUE
    /\ dbOrder = <<>>
    /\ archiveCp = <<>>
    /\ liveStore = <<>>
    /\ now = 1
    /\ fatalVerdict = FALSE
    /\ recoveryFailed = FALSE
    /\ recSteps = 0
    /\ launches = 0
    /\ termCount = 0
    /\ termOnExited = FALSE
    /\ termAt = 0
    /\ firstTrackAt = 0
    /\ verdict = "none"
    /\ infoCalls = 0
    /\ resetCalls = 0
    /\ lastInfo = -1
    /\ lastReset = NoReset
    /\ lastExport = NoExport
    /\ steps = <<>>
    /\ recovered = <<>>
    /\ overlap = FALSE

\* ------------------------------------------------- launching a sync process

\* subprocess.Popen(cmd, stdout=f) on a freshly truncated aida.log, followed
\* by the entry of check_aida_log (start = 0.0, the log opened for reading).
Spawn(fb, src) ==
    /\ procState' = "running"
    /\ procCode' = 0
    /\ termRequested' = FALSE
    /\ procLines' = 0
    /\ procDb' = 0
    /\ procCps' = 0
    /\ procArgs' = [first |-> fb, src |-> src]
    /\ log' = <<>>
    /\ start' = 0
    /\ launches' = launches + 1
    /\ overlap' = (overlap \/ procState = "running")
    /\ termCount' = 0
    /\ termOnExited' = FALSE
    /\ termAt' = 0
    /\ firstTrackAt' = 0
    /\ verdict' = "none"
    /\ pc' = "monitor"

\* Lines 183-189: the first sync, from first_block = 0.
Launch0 ==
    /\ pc = "launch"
    /\ Spawn(first_block, 0)
    /\ UNCHANGED <<i, has_failed, latest_checkpoint, first_block, working_db,
                   last_working_db, exit_status, tool, now, fatalVerdict>>
    /\ UNCHANGED <<argVars, fsVars, recoveryHist>>

\* ------------------------------------------------ check_aida_log (116-138)

\* Lines 120-123: readline() returns nothing; sleep and poll again.  The loop
\* has no other exit: past MaxTime it keeps polling with the clock unchanged.
MonitorSleep ==
    /\ pc = "monitor"
    /\ log = <<>>
    /\ now' = IF now < MaxTime THEN now + 1 ELSE now
    /\ UNCHANGED <<scriptVars, procVars, log, tool, argVars, fsVars,
                   monitorHist, recoveryHist, launches,
                   overlap>>

\* Lines 124-127: the window has elapsed: terminate the child, return False.
\* The caller assigns the value to has_failed (lines 189, 273).
MonitorTimeout ==
    /\ termRequested' = (termRequested \/ procState = "running")
    /\ termCount' = termCount + 1
    /\ termOnExited' = (termOnExited \/ procState = "exited")
    /\ termAt' = now
    /\ has_failed' = FALSE
    /\ verdict' = "timeout"
    /\ pc' = "wait"
    /\ UNCHANGED <<start, firstTrackAt, fatalVerdict>>

\* Lines 128-138: the first "Track: block" line starts the timer; a failure
\* token in the line or return code 1 of the child returns True.
MonitorClassify(line) ==
    /\ start' = IF start = 0 /\ line.track THEN now ELSE start
    /\ firstTrackAt' = IF firstTrackAt = 0 /\ line.track THEN now
                       ELSE firstTrackAt
    /\ IF poll_is(1) \/ line.fail
       THEN /\ has_failed' = TRUE
            /\ verdict' = "fatal"
            /\ fatalVerdict' = TRUE
            /\ pc' = "wait"
       ELSE /\ UNCHANGED <<has_failed, verdict, fatalVerdict, pc>>
    /\ UNCHANGED <<termRequested, termCount, termOnExited, termAt>>

\* Lines 119-138: one pass of the loop that got a line.
MonitorReadLine ==
    /\ pc = "monitor"
    /\ log # <<>>
    /\ log' = Tail(log)
    /\ IF window_elapsed(start, now, window)
       THEN MonitorTimeout
       ELSE MonitorClassify(Head(log))
    /\ UNCHANGED <<i, latest_checkpoint, first_block, working_db,
                   last_working_db, exit_status>>
    /\ UNCHANGED <<procState, procCode, procLines, procDb, procCps, procArgs>>
    /\ UNCHANGED <<tool, now, argVars, fsVars, recoveryHist, launches,
                   overlap>>

\* ----------------------------------------------------- the sync process

\* The child creates its WorkingDatabase under --db-tmp: empty for the first
\* run, a copy of --db-src for a resumed one.
ProcCreateDb ==
    /\ procState = "running"
    /\ procDb = 0
    /\ rootExists
    /\ LET d == Len(archiveCp) + 1 IN
         /\ procDb' = d
         /\ dbOrder' = Append(dbOrder, d)
         /\ archiveCp' = Append(archiveCp,
                IF procArgs.src = 0 THEN 0 ELSE archiveCp[procArgs.src])
         /\ liveStore' = Append(liveStore, "synced")
    /\ UNCHANGED <<scriptVars, procState, procCode, termRequested, procLines,
                   procCps, procArgs, log, tool, rootExists, now, argVars,
                   monitorHist, recoveryHist, launches,
                   overlap>>

\* The child commits the next checkpoint of its archive.
ProcCheckpoint ==
    /\ procState = "running"
    /\ procDb # 0
    /\ procCps < MaxCheckpoints
    /\ procCps' = procCps + 1
    /\ archiveCp' = [archiveCp EXCEPT ![procDb] = @ + checkpoint_granularity]
    /\ UNCHANGED <<scriptVars, procState, procCode, termRequested, procLines,
                   procDb, procArgs, log, tool, rootExists, dbOrder, liveStore,
                   now,
                   argVars, monitorHist, recoveryHist, launches,
                   overlap>>

\* The child appends a line to aida.log; progress lines come only once the
\* database exists.  Only lines written while check_aida_log tails the file
\* are ever read (the file is reopened for writing at the next launch), so
\* the lines written after the monitor returned are left out.
ProcWrite ==
    /\ procState = "running"
    /\ pc = "monitor"
    /\ procLines < MaxLines
    /\ Len(log) < MaxPending
    /\ \E line \in Lines :
         /\ line.track => procDb # 0
         /\ log' = Append(log, line)
    /\ procLines' = procLines + 1
    /\ UNCHANGED <<scriptVars, procState, procCode, termRequested, procDb,
                   procCps, procArgs, tool, now, argVars, fsVars, monitorHist,
                   recoveryHist, launches,
                   overlap>>

\* The child exits: on its own with some exit code, or by the signal.
ProcExit ==
    /\ procState = "running"
    /\ procState' = "exited"
    /\ procCode' \in (IF termRequested THEN {KilledCode} ELSE ExitCodes)
    /\ UNCHANGED <<scriptVars, termRequested, procLines, procDb, procCps,
                   procArgs, log, tool, now, argVars, fsVars, monitorHist,
                   recoveryHist, launches,
                   overlap>>

\* time.time() advances.  The clock is read only inside check_aida_log, so
\* the time that passes elsewhere shows as ticks when the monitor runs next.
Tick ==
    /\ pc = "monitor"
    /\ now < MaxTime
    /\ now' = now + 1
    /\ UNCHANGED <<scriptVars, procVars, log, tool, argVars, fsVars,
                   monitorHist, recoveryHist, launches,
                   overlap>>

\* --------------------------------------------------- the script: main flow

\* Lines 192-202: wait for the first sync; exit 1 at once after a fatal
\* verdict, otherwise locate the database and enter the loop.
WaitInitial ==
    /\ pc = "wait"
    /\ i = 0
    /\ procState = "exited"
    /\ IF has_failed
       THEN /\ pc' = "exited"
            /\ exit_status' = 1
            /\ UNCHANGED working_db
       ELSE /\ pc' = "loop"
            /\ working_db' = find_working_db(dbOrder)
            /\ UNCHANGED exit_status
    /\ UNCHANGED <<i, has_failed, latest_checkpoint, first_block,
                   last_working_db, start>>
    /\ UNCHANGED <<procVars, log, tool, now, argVars, fsVars, monitorHist,
                   recoveryHist, launches,
                   overlap>>

\* Variant: the loop goes on whatever the monitor returned.
WaitIterIgnoreVerdict ==
    /\ pc = "wait"
    /\ i > 0
    /\ procState = "exited"
    /\ pc' = "loop"
    /\ UNCHANGED <<i, has_failed, latest_checkpoint, first_block, working_db,
                   last_working_db, start, exit_status>>
    /\ UNCHANGED <<procVars, log, tool, now, argVars, fsVars, monitorHist,
                   recoveryHist, launches, overlap>>

\* Variant: the script goes on without process.wait().
WaitIterNoWait ==
    /\ pc = "wait"
    /\ i > 0
    /\ pc' = IF has_failed THEN "cleanup" ELSE "loop"
    /\ UNCHANGED <<i, has_failed, latest_checkpoint, first_block, working_db,
                   last_working_db, start, exit_status>>
    /\ UNCHANGED <<procVars, log, tool, now, argVars, fsVars, monitorHist,
                   recoveryHist, launches, overlap>>

\* Lines 276-279: wait for a resumed sync; a fatal verdict leaves the loop.
WaitIter ==
    /\ pc = "wait"
    /\ i > 0
    /\ procState = "exited"
    /\ pc' = IF has_failed THEN "cleanup" ELSE "loop"
    /\ UNCHANGED <<i, has_failed, latest_checkpoint, first_block, working_db,
                   last_working_db, start, exit_status>>
    /\ UNCHANGED <<procVars, log, tool, now, argVars, fsVars, monitorHist,
                   recoveryHist, launches,
                   overlap>>

\* Variant: the loop runs one pass too many.
LoopHeadOneMore ==
    /\ pc = "loop"
    /\ IF i <= number_of_iterations
       THEN /\ i' = i + 1
            /\ last_working_db' = working_db
            /\ working_db' = find_working_db(dbOrder)
            /\ infoCalls' = 0
            /\ resetCalls' = 0
            /\ steps' = <<>>
            /\ pc' = "info"
       ELSE /\ pc' = "cleanup"
            /\ UNCHANGED <<i, last_working_db, working_db, infoCalls,
                           resetCalls, steps>>
    /\ UNCHANGED <<has_failed, latest_checkpoint, first_block, start,
                   exit_status>>
    /\ UNCHANGED <<procVars, log, tool, now, argVars, fsVars, monitorHist,
                   recoveryFailed, recSteps, lastInfo, lastReset, lastExport,
                   recovered, launches, overlap>>

\* Lines 204-213: the next pass of `for i in range(1, number_of_iterations+1)`,
\* or the end of the loop.
LoopHead ==
    /\ pc = "loop"
    /\ IF i < number_of_iterations
       THEN /\ i' = i + 1
            /\ last_working_db' = working_db
            /\ working_db' = find_working_db(dbOrder)
            /\ infoCalls' = 0
            /\ resetCalls' = 0
            /\ steps' = <<>>
            /\ pc' = "info"
       ELSE /\ pc' = "cleanup"
            /\ UNCHANGED <<i, last_working_db, working_db, infoCalls,
                           resetCalls, steps>>
    /\ UNCHANGED <<has_failed, latest_checkpoint, first_block, start,
                   exit_status>>
    /\ UNCHANGED <<procVars, log, tool, now, argVars, fsVars, monitorHist,
                   recoveryFailed, recSteps, lastInfo, lastReset, lastExport,
                   recovered, launches,
                   overlap>>

\* subprocess.run starts the database tool as a child and blocks on it.
ToolCall(at, name, next) ==
    /\ pc = at
    /\ tool' = name
    /\ overlap' = (overlap \/ procState = "running")
    /\ recSteps' = recSteps + 1
    /\ pc' = next
    /\ UNCHANGED <<i, has_failed, latest_checkpoint, first_block, working_db,
                   last_working_db, start, exit_status>>
    /\ UNCHANGED <<procVars, log, now, argVars, fsVars, monitorHist,
                   recoveryFailed, lastInfo, lastReset, lastExport, steps,
                   recovered, launches>>

\* ------------------------------------------- the database tool (external)

\* info <archive>: on success the last line of its output is the archive's
\* latest checkpoint.
ToolInfo(rc, out) ==
    /\ tool = "info"
    /\ rc = 0 => out = archiveCp[working_db]
    /\ tool' = "none"
    /\ UNCHANGED fsVars

\* reset <archive> <block>: succeeds only for a checkpoint the archive has
\* committed, and makes it the archive's latest.
ToolReset(rc, cp) ==
    /\ tool = "reset"
    /\ rc = 0 => cp \in Committed(archiveCp[working_db])
    /\ archiveCp' = IF rc = 0 THEN [archiveCp EXCEPT ![working_db] = cp]
                    ELSE archiveCp
    /\ tool' = "none"
    /\ UNCHANGED <<rootExists, dbOrder, liveStore>>

\* export --block <n> <archive> <genesis>.
ToolExport(rc) ==
    /\ tool = "export"
    /\ tool' = "none"
    /\ UNCHANGED fsVars

\* import-live-db <genesis> <live>: writes the live store under working_db.
ToolImport(rc) ==
    /\ tool = "import"
    /\ tool' = "none"
    /\ dbOrder' = IF rc = 0 THEN Touch(dbOrder, working_db) ELSE dbOrder
    /\ liveStore' = IF rc = 0 THEN [liveStore EXCEPT ![working_db] = "imported"]
                    ELSE liveStore
    /\ UNCHANGED <<rootExists, archiveCp>>

\* ------------------------------------------------ the script: one recovery

\* Lines 146-150: get_latest_checkpoint_from_info starts `info`.
InfoCall ==
    /\ ToolCall("info", "info", "info_wait")
    /\ infoCalls' = infoCalls + 1
    /\ UNCHANGED resetCalls

\* Lines 151-159, 216: -1 when info failed, else the number on its last line.
get_latest_checkpoint_from_info(rc, out) ==
    IF has_program_failed(rc) THEN -1 ELSE out

InfoReturn ==
    /\ pc = "info_wait"
    /\ \E rc \in ToolCodes, out \in {-1} \cup Committed(archiveCp[working_db]) :
         /\ ToolInfo(rc, out)
         /\ rc # 0 => out = -1
         /\ latest_checkpoint' = get_latest_checkpoint_from_info(rc, out)
         /\ lastInfo' = get_latest_checkpoint_from_info(rc, out)
    /\ pc' = "reset"
    /\ UNCHANGED <<i, has_failed, first_block, working_db, last_working_db,
                   start, exit_status>>
    /\ UNCHANGED <<procVars, log, now, argVars, monitorHist, recoveryFailed,
                   recSteps, infoCalls, resetCalls, lastReset, lastExport,
                   steps, recovered, launches,
                   overlap>>

\* Lines 220-224: reset the archive to latest_checkpoint.
ResetCall ==
    /\ ToolCall("reset", "reset", "reset_wait")
    /\ resetCalls' = resetCalls + 1
    /\ UNCHANGED infoCalls

\* Variant: the first failed reset of an iteration goes back to info and
\* resets again; only the second failure is fatal.
AfterResetRetry(rc) ==
    IF has_program_failed(rc)
    THEN IF resetCalls = 1
         THEN /\ pc' = "info"
              /\ UNCHANGED has_failed
         ELSE /\ has_failed' = TRUE
              /\ pc' = "cleanup"
    ELSE /\ pc' = "export"
         /\ UNCHANGED has_failed

\* Lines 225-228: a failed reset sets has_failed and leaves the loop.
AfterReset(rc) ==
    IF has_program_failed(rc)
    THEN /\ has_failed' = TRUE
         /\ pc' = "cleanup"
    ELSE /\ pc' = "export"
         /\ UNCHANGED has_failed

ResetReturn ==
    /\ pc = "reset_wait"
    /\ \E rc \in ToolCodes :
         /\ ToolReset(rc, latest_checkpoint)
         /\ lastReset' = [cp |-> latest_checkpoint, rc |-> rc, iter |-> i,
                          db |-> working_db]
         /\ recoveryFailed' = (recoveryFailed \/ rc # 0)
         /\ steps' = IF rc = 0 THEN Append(steps, "reset") ELSE steps
         /\ recovered' = IF rc = 0 THEN Append(recovered, latest_checkpoint)
                         ELSE recovered
         /\ AfterReset(rc)
    /\ UNCHANGED <<i, latest_checkpoint, first_block, working_db,
                   last_working_db, start, exit_status>>
    /\ UNCHANGED <<procVars, log, now, argVars, monitorHist, recSteps,
                   infoCalls, resetCalls, lastInfo, lastExport, launches,
                   overlap>>

\* Lines 231-236: export the genesis at latest_checkpoint.
ExportCall ==
    /\ ToolCall("export", "export", "export_wait")
    /\ UNCHANGED <<infoCalls, resetCalls>>

\* Variant: a failed export leaves the loop without setting has_failed.
AfterExportNoFlag(rc) ==
    IF has_program_failed(rc)
    THEN /\ pc' = "cleanup"
         /\ UNCHANGED has_failed
    ELSE /\ pc' = "rmtree_live"
         /\ UNCHANGED has_failed

\* Variant: the result of export is not looked at.
AfterExportIgnore(rc) ==
    /\ pc' = "rmtree_live"
    /\ UNCHANGED has_failed

\* Lines 237-239: a failed export sets has_failed and leaves the loop.
AfterExport(rc) ==
    IF has_program_failed(rc)
    THEN /\ has_failed' = TRUE
         /\ pc' = "cleanup"
    ELSE /\ pc' = "rmtree_live"
         /\ UNCHANGED has_failed

ExportReturn ==
    /\ pc = "export_wait"
    /\ \E rc \in ToolCodes :
         /\ ToolExport(rc)
         /\ recoveryFailed' = (recoveryFailed \/ rc # 0)
         /\ lastExport' = [cp |-> latest_checkpoint, rc |-> rc, iter |-> i]
         /\ steps' = IF rc = 0 THEN Append(steps, "export") ELSE steps
         /\ AfterExport(rc)
    /\ UNCHANGED <<i, latest_checkpoint, first_block, working_db,
                   last_working_db, start, exit_status>>
    /\ UNCHANGED <<procVars, log, now, argVars, monitorHist, recSteps,
                   infoCalls, resetCalls, lastInfo, lastReset, recovered,
                   launches,
                   overlap>>

\* Line 243: shutil.rmtree(live).  It raises on an error (no ignore_errors);
\* nothing catches the exception, so the interpreter exits with status 1.
RmtreeLive ==
    /\ pc = "rmtree_live"
    /\ recSteps' = recSteps + 1
    /\ \E ok \in BOOLEAN :
         IF ok
         THEN /\ dbOrder' = Touch(dbOrder, working_db)
              /\ liveStore' = [liveStore EXCEPT ![working_db] = "deleted"]
              /\ steps' = Append(steps, "delete")
              /\ pc' = "import"
              /\ UNCHANGED <<exit_status, recoveryFailed>>
         ELSE /\ pc' = "exited"
              /\ exit_status' = 1
              /\ recoveryFailed' = TRUE
              /\ liveStore' \in {liveStore,
                                  [liveStore EXCEPT ![working_db] = "partial"]}
              /\ UNCHANGED <<dbOrder, steps>>
    /\ UNCHANGED <<i, has_failed, latest_checkpoint, first_block, working_db,
                   last_working_db, start>>
    /\ UNCHANGED <<procVars, log, tool, now, argVars, rootExists, archiveCp,
                   monitorHist, infoCalls, resetCalls, lastInfo, lastReset,
                   lastExport, recovered,
                   launches,
                   overlap>>

\* Lines 245-249: import the genesis into a fresh live store.
ImportCall ==
    /\ ToolCall("import", "import", "import_wait")
    /\ UNCHANGED <<infoCalls, resetCalls>>

\* Lines 250-252: a failed import sets has_failed and leaves the loop.
AfterImport(rc) ==
    IF has_program_failed(rc)
    THEN /\ has_failed' = TRUE
         /\ pc' = "cleanup"
    ELSE /\ pc' = "resume"
         /\ UNCHANGED has_failed

ImportReturn ==
    /\ pc = "import_wait"
    /\ \E rc \in ToolCodes :
         /\ ToolImport(rc)
         /\ recoveryFailed' = (recoveryFailed \/ rc # 0)
         /\ steps' = IF rc = 0 THEN Append(steps, "import") ELSE steps
         /\ AfterImport(rc)
    /\ UNCHANGED <<i, latest_checkpoint, first_block, working_db,
                   last_working_db, start, exit_status>>
    /\ UNCHANGED <<procVars, log, now, argVars, monitorHist, recSteps,
                   infoCalls, resetCalls, lastInfo, lastReset, lastExport,
                   recovered, launches,
                   overlap>>

\* Variant: the sync restarts at the restored checkpoint itself.
resume_block_same(cp) == cp

\* Line 256: the block after the restored checkpoint.
resume_block(cp) == cp + 1

\* Variant: the relaunch command without --db-src, like the first command.
resume_src_none(db) == 0

\* Lines 264-265: '--db-src', str(working_db).
resume_src(db) == db

\* Lines 254-273: relaunch the sync on the recovered database.
Resume ==
    /\ pc = "resume"
    /\ first_block' = resume_block(latest_checkpoint)
    /\ Spawn(resume_block(latest_checkpoint), resume_src(working_db))
    /\ UNCHANGED <<i, has_failed, latest_checkpoint, working_db,
                   last_working_db, exit_status, tool, now, fatalVerdict>>
    /\ steps' = Append(steps, "launch")
    /\ UNCHANGED <<recoveryFailed, recSteps, infoCalls, resetCalls, lastInfo,
                   lastReset, lastExport, recovered>>
    /\ UNCHANGED <<argVars, fsVars>>

\* Lines 281-290: remove working_dir, then exit 1 if has_failed, else 0.
Finish ==
    /\ pc = "cleanup"
    /\ rootExists' = FALSE
    /\ dbOrder' = <<>>
    /\ exit_status' = IF has_failed THEN 1 ELSE 0
    /\ pc' = "exited"
    /\ UNCHANGED <<i, has_failed, latest_checkpoint, first_block, working_db,
                   last_working_db, start>>
    /\ UNCHANGED <<procVars, log, tool, now, argVars, archiveCp, liveStore,
                   monitorHist,
                   recoveryHist, launches,
                   overlap>>

\* ------------------------------------------------------- specifications

Script ==
    \/ Launch0
    \/ MonitorSleep
    \/ MonitorReadLine
    \/ WaitInitial
    \/ WaitIter
    \/ LoopHead
    \/ InfoCall
    \/ InfoReturn
    \/ ResetCall
    \/ ResetReturn
    \/ ExportCall
    \/ ExportReturn
    \/ RmtreeLive
    \/ ImportCall
    \/ ImportReturn
    \/ Resume
    \/ Finish

Next ==
    \/ Script
    \/ ProcCreateDb
    \/ ProcCheckpoint
    \/ ProcWrite
    \/ ProcExit
    \/ Tick

Spec == Init /\ [][Next]_vars

\* The script is a running program, the tool runs it waits for end, the clock
\* advances, and a child that was sent the signal exits.  The sync process is
\* under no obligation to write, to checkpoint or to end on its own.
FairSpec ==
    /\ Spec
    /\ WF_vars(Script)
    /\ WF_vars(Tick)
    /\ WF_vars(termRequested /\ ProcExit)

\* ================================================================ claims

\* Positions of the script between the wait on a sync process and the next
\* launch or the exit.
RecoveryPcs == {"loop", "info", "info_wait", "reset", "reset_wait", "export",
                "export_wait", "rmtree_live", "import", "import_wait",
                "resume", "cleanup"}

\* C1: whenever the script has exited, on whichever path, working_dir has been
\* removed and no WorkingDatabase directory is left under it.
C1_RootRemovedAtExit ==
    pc = "exited" => (~rootExists /\ dbOrder = <<>>)

C3_ResumeFromResetCheckpoint ==
    (procArgs.src # 0 /\ pc \in {"monitor", "wait"})
        => /\ lastReset.iter = i
           /\ lastReset.rc = 0
           /\ lastReset.db = working_db
           /\ procArgs.src = working_db
           /\ procArgs.first = lastReset.cp + 1
           /\ first_block = lastReset.cp + 1

C3_Witness ==
    /\ pc = "monitor"
    /\ procState = "running"
    /\ procArgs.src # 0
    /\ i = 2
    /\ lastReset.cp = checkpoint_granularity
    /\ procArgs.first = checkpoint_granularity + 1

\* C4: no database tool runs and no sync process is launched before the wait
\* on the previous sync process has completed; no two children run at once.
C4_NoChildBeforeWait ==
    /\ ~overlap
    /\ tool # "none" => procState = "exited"
    /\ pc \in RecoveryPcs => procState = "exited"

C4_Witness ==
    /\ tool = "reset"
    /\ launches = 2
    /\ procState = "exited"
    /\ procCode = KilledCode

\* C5: once the kill window has elapsed since the first progress line, the
\* monitor eventually returns: timed out, with terminate requested, or fatal.
C5_KillAfterWindow ==
    (pc = "monitor" /\ window_elapsed(start, now, window))
        ~> (verdict = "fatal" \/ (verdict = "timeout" /\ termCount = 1))

\* C6: when the sync process has made progress and exited with code 0 without
\* being killed (and no failure line is left in its log), the monitor returns
\* and the run ends with exit status 0.
C6_NormalExitEndsInSuccess ==
    (/\ pc = "monitor"
     /\ start > 0
     /\ poll_is(0)
     /\ ~termRequested
     /\ \A k \in 1..Len(log) : ~log[k].fail)
        ~> (pc = "exited" /\ exit_status = 0)

\* C7: after the monitor has returned the fatal verdict no recovery step
\* starts, no tool runs and no sync process is launched, and the exit status
\* is non-zero.
C7_NothingAfterFatal ==
    /\ [](fatalVerdict => tool = "none")
    /\ []((fatalVerdict /\ pc = "exited") => exit_status # 0)
    /\ [][fatalVerdict => (recSteps' = recSteps /\ launches' = launches)]_vars

C7_Witness ==
    /\ fatalVerdict
    /\ i >= 1
    /\ firstTrackAt = 0
    /\ pc = "exited"
    /\ exit_status = 1

\* C8: the exit status is non-zero exactly when the monitor returned the
\* fatal verdict or a recovery step (reset, export, live-store swap) failed.
C8_ExitStatus ==
    pc = "exited" => ((exit_status # 0) <=> (fatalVerdict \/ recoveryFailed))

C8_Witness ==
    /\ pc = "exited"
    /\ exit_status = 1
    /\ recoveryFailed
    /\ ~fatalVerdict
    /\ i = 2

C10_TerminateOnceOnLive ==
    /\ termCount <= 1
    /\ termCount = 1 => verdict = "timeout"
    /\ ~termOnExited

\* The order of the steps of one recovery.
StepOrder == <<"reset", "export", "delete", "import", "launch">>

IsPrefix(a, b) ==
    /\ Len(a) <= Len(b)
    /\ \A k \in 1..Len(a) : a[k] = b[k]

\* C11: the steps of a recovery succeed in the order reset, export, delete,
\* import, launch, none without the one before it; the live store is touched
\* only after the reset and the export of this iteration succeeded at the same
\* checkpoint; after a failed reset or export the live store is as the sync
\* left it and no sync is relaunched.
C11_RecoveryStepOrder ==
    /\ IsPrefix(steps, StepOrder)
    /\ (i > 0 /\ liveStore[working_db] # "synced")
          => /\ lastReset.iter = i /\ lastReset.rc = 0
             /\ lastExport.iter = i /\ lastExport.rc = 0
             /\ lastExport.cp = lastReset.cp
    /\ (i > 0 /\ (\/ (lastReset.iter = i /\ lastReset.rc # 0)
                  \/ (lastExport.iter = i /\ lastExport.rc # 0)))
          => /\ liveStore[working_db] = "synced"
             /\ launches = i
             /\ pc \in {"cleanup", "exited"}

C11_Witness ==
    /\ i = 2
    /\ steps = StepOrder
    /\ liveStore[working_db] = "imported"
    /\ lastExport.cp = checkpoint_granularity
    /\ procState = "running"

\* C12: at the start of every iteration's recovery the WorkingDatabase
\* directories under working_dir are the current one and at most its
\* predecessor: the superseded ones have been removed.
C12_OnlyCurrentAndPredecessor ==
    pc = "info"
        => \A k \in 1..Len(dbOrder) :
              dbOrder[k] \in {working_db, last_working_db}

\* C13: the checkpoints of the successful resets of one run, in the order of
\* the iterations, never decrease (the archives behaving as modelled: a copy
\* starts at the checkpoint its source was reset to and only advances).
C13_RecoveredNonDecreasing ==
    \A a, b \in 1..Len(recovered) : a < b => recovered[a] <= recovered[b]

C13_Witness ==
    /\ Len(recovered) = 3
    /\ recovered[1] < recovered[2]
    /\ recovered[2] = recovered[3]

\* C14: with iteration count N the run starts at most N recoveries and
\* launches at most N+1 sync processes; a run that ends with status 0 has made
\* exactly N recoveries and ends on the timed-out verdict of process N+1; once
\* a fatal verdict or a failed recovery step has occurred, no iteration starts
\* and no sync process is launched.
C14_IterationCount ==
    /\ [](/\ i <= number_of_iterations
          /\ launches <= i + 1
          /\ Len(recovered) <= i)
    /\ []((pc = "exited" /\ exit_status = 0)
            => /\ i = number_of_iterations
               /\ Len(recovered) = number_of_iterations
               /\ launches = number_of_iterations + 1
               /\ verdict = "timeout")
    /\ []((pc = "exited" /\ ~fatalVerdict /\ ~recoveryFailed)
            => exit_status = 0)
    /\ [][(fatalVerdict \/ recoveryFailed)
            => (i' = i /\ launches' = launches)]_vars

C14_Witness ==
    /\ pc = "exited"
    /\ exit_status = 0
    /\ number_of_iterations = 3
    /\ launches = 4
    /\ Len(recovered) = 3

\* C15: every line with a failure token that the monitor reads makes it return
\* the fatal verdict at that line, without a call of terminate.
C15_FailureLineIsFatal ==
    [][(pc = "monitor" /\ log # <<>> /\ Head(log).fail /\ log' = Tail(log))
          => (verdict' = "fatal" /\ termCount' = termCount)]_vars

\* C16: once the sync process has exited on its own with a non-zero exit
\* code, the monitor eventually returns the fatal verdict.
C16_FailureExitIsFatal ==
    (pc = "monitor" /\ procState = "exited" /\ ~termRequested /\ procCode # 0)
        ~> (verdict = "fatal")

\* C17: after the monitor has returned the fatal verdict the script
\* eventually exits with a non-zero status.
C17_FatalVerdictEndsRun ==
    fatalVerdict ~> (pc = "exited" /\ exit_status # 0)

\* C18: reset is invoked only with a value that a successful info query of
\* the same iteration reported, never with the failure marker -1; after a
\* failed info query no sync is relaunched and the exit status is non-zero.
C18_ResetOnlyWithInfoValue ==
    /\ tool = "reset"
          => (infoCalls = 1 /\ lastInfo >= 0 /\ latest_checkpoint = lastInfo)
    /\ (i > 0 /\ infoCalls = 1 /\ lastInfo = -1
          /\ pc \notin {"info_wait", "reset"})
          => (launches = i /\ (pc = "exited" => exit_status # 0))
====
